---------------------------- MODULE Spec2Model ----------------------------
(***************************************************************************)
(* Model of the parser-combinator engine of src/src/index.ts.              *)
(*                                                                         *)
(* A JavaScript string is a sequence of one-character strings.  A parser   *)
(* value is a record naming the constructor that built it and the values   *)
(* its closure captured.  consume and parse are operators computed the way *)
(* the code computes them; the callbacks given to onParsed append to the   *)
(* variable observed, the only state an evaluation changes.                *)
(***************************************************************************)
EXTENDS Integers, Sequences, FiniteSets

(***************************************************************************)
(* Bounds of the model.                                                    *)
(***************************************************************************)
\* longest input over {a, b} given to the non-recursive grammars
MaxLen == 3
\* longest input given to the recursive grammars
MaxRecLen == 4
\* call-stack frames an evaluation may nest before the engine throws
StackLimit == 44

(***************************************************************************)
(* JavaScript values: strings, undefined, optional fields.                 *)
(***************************************************************************)
\* the value undefined where a string is expected (a capture group that did
\* not take part in the match)
Undefined == <<"undefined">>

\* String(x): what RegExp.prototype.exec and a template literal make of x
StringOf(x) ==
    IF x = Undefined THEN <<"u", "n", "d", "e", "f", "i", "n", "e", "d">> ELSE x

\* an optional property: absent/undefined, or present with value x
None == <<>>
Some(x) == <<x>>

\* an optional list read as a list: absent is empty
OptList(o) == IF o = None THEN <<>> ELSE o[1]

\* res.causes / res.suppressedFailures: reading a property that may be absent
Get(rec, field) == IF field \in DOMAIN rec THEN rec[field] ELSE None

(***************************************************************************)
(* The regular-expression engine behind new RegExp(...) and exec: a        *)
(* backtracking matcher over a small pattern syntax with capture groups.   *)
(***************************************************************************)
Chr(c) == [t |-> "chr", c |-> c]
AnyChar == [t |-> "any"]
Cat(l, r) == [t |-> "cat", l |-> l, r |-> r]
Alt(l, r) == [t |-> "alt", l |-> l, r |-> r]
Grp(e) == [t |-> "grp", e |-> e]
Star(e) == [t |-> "star", e |-> e]
Empty == [t |-> "empty"]

RECURSIVE NGroups(_)
\* number of capture groups of a pattern, in order of their opening parenthesis
NGroups(re) ==
    CASE re.t \in {"chr", "any", "empty"} -> 0
      [] re.t \in {"cat", "alt"} -> NGroups(re.l) + NGroups(re.r)
      [] re.t = "grp" -> 1 + NGroups(re.e)
      [] re.t = "star" -> NGroups(re.e)

Undefs(n) == [i \in 1..n |-> Undefined]

RECURSIVE Match(_, _, _), CatMatches(_, _, _), StarMatches(_, _, _, _), StarIter(_, _, _, _)
\* the ways pattern re matches s from position i, in the engine's order of
\* preference: each the position after the match and the groups captured
Match(re, s, i) ==
    CASE re.t = "chr" ->
            IF i <= Len(s) /\ s[i] = re.c THEN <<[e |-> i + 1, caps |-> <<>>]>> ELSE <<>>
      [] re.t = "any" ->
            IF i <= Len(s) THEN <<[e |-> i + 1, caps |-> <<>>]>> ELSE <<>>
      [] re.t = "empty" -> <<[e |-> i, caps |-> <<>>]>>
      [] re.t = "cat" -> CatMatches(Match(re.l, s, i), re.r, s)
      [] re.t = "alt" ->
            LET ls == Match(re.l, s, i)
                rs == Match(re.r, s, i)
            IN  [k \in 1..Len(ls) |-> [e |-> ls[k].e, caps |-> ls[k].caps \o Undefs(NGroups(re.r))]]
                \o [k \in 1..Len(rs) |-> [e |-> rs[k].e, caps |-> Undefs(NGroups(re.l)) \o rs[k].caps]]
      [] re.t = "grp" ->
            LET ms == Match(re.e, s, i)
            IN  [k \in 1..Len(ms) |->
                    [e |-> ms[k].e, caps |-> <<SubSeq(s, i, ms[k].e - 1)>> \o ms[k].caps]]
      [] re.t = "star" -> StarMatches(re.e, s, i, Undefs(NGroups(re.e)))

CatMatches(ms, r, s) ==
    IF ms = <<>> THEN <<>>
    ELSE LET m == Head(ms)
             rs == Match(r, s, m.e)
         IN  [k \in 1..Len(rs) |-> [e |-> rs[k].e, caps |-> m.caps \o rs[k].caps]]
             \o CatMatches(Tail(ms), r, s)

\* e*: greedy, an iteration that matches nothing is not taken
StarMatches(e, s, i, caps) ==
    StarIter(Match(e, s, i), e, s, i) \o <<[e |-> i, caps |-> caps]>>

StarIter(ms, e, s, i) ==
    IF ms = <<>> THEN <<>>
    ELSE LET m == Head(ms)
         IN  (IF m.e > i THEN StarMatches(e, s, m.e, m.caps) ELSE <<>>)
             \o StarIter(Tail(ms), e, s, i)

\* matcher.exec(str) for a matcher /^...$/: null (None), or the array of the
\* whole match followed by the capture groups
exec(matcher, str) ==
    LET s == StringOf(str)
        ms == Match(matcher, s, 1)
        full == {k \in 1..Len(ms) : ms[k].e = Len(s) + 1}
    IN  IF full = {} THEN None
        ELSE LET k == CHOOSE x \in full : \A y \in full : x <= y
             IN  Some(<<s>> \o ms[k].caps)

\* the element at (zero-based) index i of a result array, undefined beyond it
At(arr, i) == IF i + 1 <= Len(arr) THEN arr[i + 1] ELSE Undefined

(***************************************************************************)
(* Parser values.  createParser (lines 28-104) wraps a consume function;   *)
(* the record keeps the constructor's name and what its closure captured.  *)
(***************************************************************************)
\* a RegExp value: its source text and the pattern the source denotes
RegExpOf(source, ast) == [source |-> source, ast |-> ast]

str(literal) == [t |-> "str", literal |-> literal]
regexp(exp) == [t |-> "regexp", exp |-> exp]
then(arg, action) == [t |-> "then", arg |-> arg, action |-> action]
validate(arg, predicate) == [t |-> "validate", arg |-> arg, predicate |-> predicate]
onParsed(arg, cb) == [t |-> "onParsed", arg |-> arg, cb |-> cb]
not(arg, parser) == [t |-> "not", arg |-> arg, parser |-> parser]
lazy(factory) == [t |-> "lazy", factory |-> factory]
sequence(parsers) == [t |-> "sequence", parsers |-> parsers]
choice(parsers) == [t |-> "choice", parsers |-> parsers]
repeat(parser) == [t |-> "repeat", parser |-> parser]

\* the functions a grammar author passes to then and validate
Apply(action, content) ==
    CASE action = "wrap" -> <<content>>
      [] action = "const" -> <<"K">>

Holds(predicate, content) ==
    CASE predicate = "nonEmpty" -> content # <<>>
      [] predicate = "never" -> FALSE
      [] predicate = "always" -> TRUE

\* the recursive grammars of the model, each the body of the factory given
\* to lazy: balanced parentheses, and an atom behind any number of prefix signs
Parens == repeat(sequence(<<str(<<"(">>), lazy("Parens"), str(<<")">>)>>))
Prefixed == choice(<<sequence(<<str(<<"-">>), lazy("Prefixed")>>), str(<<"a">>)>>)
\* Prefixed with an observer on every level of the recursion
PrefixedObs == choice(<<sequence(<<str(<<"-">>), onParsed(lazy("PrefixedObs"), "0")>>), str(<<"a">>)>>)

\* factory(): the parser the factory given to lazy constructs
Factory(name) ==
    CASE name = "Parens" -> Parens
      [] name = "Prefixed" -> Prefixed
      [] name = "PrefixedObs" -> PrefixedObs

(***************************************************************************)
(* Leaf matchers.                                                          *)
(***************************************************************************)
\* the characters escapeRegExp escapes (whitespace aside)
SpecialChars == {"-", "[", "]", "{", "}", "(", ")", "*", "+", "?", ".", ",", "\\", "^", "$", "|", "#", " "}

RECURSIVE escapeRegExp(_)
\* text.replace(/[-[\]{}()*+?.,\\^$|#\s]/g, '\\$&')
escapeRegExp(text) ==
    IF text = <<>> THEN <<>>
    ELSE (IF Head(text) \in SpecialChars THEN <<"\\", Head(text)>> ELSE <<Head(text)>>)
         \o escapeRegExp(Tail(text))

RECURSIVE CompileEscaped(_)
\* the pattern an escaped literal denotes inside new RegExp(...): an escaped
\* character or a plain one matches itself
CompileEscaped(escaped) ==
    IF escaped = <<>> THEN Empty
    ELSE IF Head(escaped) = "\\"
         THEN Cat(Chr(escaped[2]), CompileEscaped(Tail(Tail(escaped))))
         ELSE Cat(Chr(Head(escaped)), CompileEscaped(Tail(escaped)))

\* new RegExp(`^${escaped}([\\s\\S]*)$`)
StrMatcher(literal) == Cat(CompileEscaped(escapeRegExp(literal)), Grp(Star(AnyChar)))

\* new RegExp(`^(${exp.source})([\\s\\S]*)$`)
RegexpMatcher(exp) == Cat(Grp(exp.ast), Grp(Star(AnyChar)))

\* str(literal).consume(str)
strConsume(p, input) ==
    LET result == exec(StrMatcher(p.literal), input)
    IN  IF result = None
        THEN [result |-> "failure",
              message |-> <<"Literal '", p.literal, "' not matched: '", StringOf(input), "'">>]
        ELSE [content |-> p.literal, result |-> "match", unconsumed |-> At(result[1], 1)]

\* regexp(exp).consume(str)
regexpConsume(p, input) ==
    LET result == exec(RegexpMatcher(p.exp), input)
    IN  IF result = None
        THEN [result |-> "failure",
              message |-> <<"Regexp '/", p.exp.source, "/' not matched: '", StringOf(input), "'">>]
        ELSE [content |-> At(result[1], 1), result |-> "match", unconsumed |-> At(result[1], 2)]

(***************************************************************************)
(* Evaluation.  Every consume returns its result (out) and the calls of    *)
(* onParsed callbacks it made, in order (log).  d is the number of stack   *)
(* frames left: a call with none left throws RangeError, which unwinds     *)
(* through every caller.                                                   *)
(***************************************************************************)
Thrown(error) == [result |-> "throw", error |-> error]
Ret(out, log) == [out |-> out, log |-> log]

RECURSIVE consume(_, _, _)

\* then(action): lines 31-47
thenConsume(p, input, d) ==
    LET r == consume(p.arg, input, d)
    IN  CASE r.out.result = "match" ->
                Ret([result |-> r.out.result, unconsumed |-> r.out.unconsumed,
                     content |-> Apply(p.action, r.out.content)], r.log)
          [] r.out.result = "failure" -> r
          [] r.out.result = "throw" -> r

\* onParsed calling the callback only when the wrapped parser matched
onParsedConsume_matchOnly(p, input, d) ==
    LET r == consume(p.arg, input, d)
    IN  CASE r.out.result = "match" ->
                Ret(r.out, r.log \o <<[cb |-> p.cb, str |-> input, parsed |-> r.out]>>)
          [] r.out.result # "match" -> r

\* onParsed(cb): lines 48-56
onParsedConsume(p, input, d) ==
    LET r == consume(p.arg, input, d)
    IN  CASE r.out.result = "throw" -> r
          [] r.out.result # "throw" ->
                Ret(r.out, r.log \o <<[cb |-> p.cb, str |-> input, parsed |-> r.out]>>)

\* validate(predicate): lines 74-89
validateConsume(p, input, d) ==
    LET r == consume(p.arg, input, d)
    IN  CASE r.out.result = "match" /\ Holds(p.predicate, r.out.content) -> r
          [] r.out.result = "match" /\ ~Holds(p.predicate, r.out.content) ->
                Ret([result |-> "failure", message |-> <<"Validation Error">>], r.log)
          [] r.out.result = "failure" -> r
          [] r.out.result = "throw" -> r

\* not(parser): lines 90-102
notConsume(p, input, d) ==
    LET c == consume(p.parser, input, d)
        r == consume(p.arg, input, d)
    IN  CASE c.out.result = "match" ->
                Ret([result |-> "failure", message |-> <<"TODO:">>], c.log)
          [] c.out.result = "failure" -> Ret(r.out, c.log \o r.log)
          [] c.out.result = "throw" -> c

\* lazy that never calls its factory and matches nothing
lazyConsume_skip(p, input, d) ==
    Ret([result |-> "match", content |-> <<>>, unconsumed |-> input], <<>>)

\* lazy(factory): lines 105-109
lazyConsume(p, input, d) == consume(Factory(p.factory), input, d)

RECURSIVE matchSeq_fn_sameCursor(_, _, _, _, _, _)
\* fn of _matchSeq handing the next element the cursor it was given itself
matchSeq_fn_sameCursor(parsers, cur, num, prev, d, log) ==
    LET r == consume(parsers[num + 1], cur, d - 1)
    IN  CASE d <= 0 -> Ret(Thrown("RangeError"), log)
          [] d > 0 /\ num + 1 > Len(parsers) -> Ret(Thrown("TypeError"), log)
          [] d > 0 /\ num + 2 <= Len(parsers) /\ r.out.result = "match" ->
                matchSeq_fn_sameCursor(parsers, cur, num + 1,
                                       prev \o <<r.out.content>>, d - 1, log \o r.log)
          [] d > 0 /\ num + 2 > Len(parsers) /\ num + 1 <= Len(parsers) /\ r.out.result = "match" ->
                Ret([result |-> "match", content |-> prev \o <<r.out.content>>,
                     unconsumed |-> r.out.unconsumed], log \o r.log)
          [] d > 0 /\ num + 1 <= Len(parsers) /\ r.out.result # "match" ->
                Ret(r.out, log \o r.log)

RECURSIVE matchSeq_fn(_, _, _, _, _, _)
\* fn of _matchSeq: lines 120-132.  parsers[num] of an empty list is
\* undefined, and calling its consume throws TypeError.
matchSeq_fn(parsers, cur, num, prev, d, log) ==
    LET r == consume(parsers[num + 1], cur, d - 1)
    IN  CASE d <= 0 -> Ret(Thrown("RangeError"), log)
          [] d > 0 /\ num + 1 > Len(parsers) -> Ret(Thrown("TypeError"), log)
          [] d > 0 /\ num + 2 <= Len(parsers) /\ r.out.result = "match" ->
                matchSeq_fn(parsers, r.out.unconsumed, num + 1,
                            prev \o <<r.out.content>>, d - 1, log \o r.log)
          [] d > 0 /\ num + 2 > Len(parsers) /\ num + 1 <= Len(parsers) /\ r.out.result = "match" ->
                Ret([result |-> "match", content |-> prev \o <<r.out.content>>,
                     unconsumed |-> r.out.unconsumed], log \o r.log)
          [] d > 0 /\ num + 1 <= Len(parsers) /\ r.out.result # "match" ->
                Ret(r.out, log \o r.log)

\* _matchSeq(str, parsers): lines 119-134
_matchSeq(input, parsers, d) == matchSeq_fn(parsers, input, 0, <<>>, d - 1, <<>>)

\* sequence(...parsers): lines 111-117
sequenceConsume(p, input, d) == _matchSeq(input, p.parsers, d)

\* failures ? [...failures, failure] : [failure]
Collected(failures, failure) ==
    IF failures # None THEN Some(failures[1] \o <<failure>>) ELSE Some(<<failure>>)

RECURSIVE choice_fn_prepend(_, _, _, _, _, _)
\* fn of choice collecting each failure in front of the earlier ones
choice_fn_prepend(parsers, input, num, failures, d, log) ==
    LET r == consume(parsers[num + 1], input, d - 1)
    IN  CASE d <= 0 -> Ret(Thrown("RangeError"), log)
          [] d > 0 /\ num + 1 > Len(parsers) ->
                Ret([result |-> "failure", message |-> <<"No Matches">>, causes |-> failures], log)
          [] d > 0 /\ num + 1 <= Len(parsers) /\ r.out.result = "match" ->
                Ret([result |-> "match", unconsumed |-> r.out.unconsumed,
                     content |-> r.out.content, suppressedFailures |-> failures],
                    log \o r.log)
          [] d > 0 /\ num + 1 <= Len(parsers) /\ r.out.result = "failure" ->
                choice_fn_prepend(parsers, input, num + 1,
                    Some(<<[message |-> r.out.message, causes |-> Get(r.out, "causes")]>>
                         \o OptList(failures)),
                    d - 1, log \o r.log)
          [] d > 0 /\ num + 1 <= Len(parsers) /\ r.out.result = "throw" ->
                Ret(r.out, log \o r.log)

RECURSIVE choice_fn(_, _, _, _, _, _)
\* fn of choice: lines 139-159
choice_fn(parsers, input, num, failures, d, log) ==
    LET r == consume(parsers[num + 1], input, d - 1)
    IN  CASE d <= 0 -> Ret(Thrown("RangeError"), log)
          [] d > 0 /\ num + 1 > Len(parsers) ->
                Ret([result |-> "failure", message |-> <<"No Matches">>, causes |-> failures], log)
          [] d > 0 /\ num + 1 <= Len(parsers) /\ r.out.result = "match" ->
                Ret([result |-> "match", unconsumed |-> r.out.unconsumed,
                     content |-> r.out.content, suppressedFailures |-> failures],
                    log \o r.log)
          [] d > 0 /\ num + 1 <= Len(parsers) /\ r.out.result = "failure" ->
                choice_fn(parsers, input, num + 1,
                    Collected(failures,
                              [message |-> r.out.message, causes |-> Get(r.out, "causes")]),
                    d - 1, log \o r.log)
          [] d > 0 /\ num + 1 <= Len(parsers) /\ r.out.result = "throw" ->
                Ret(r.out, log \o r.log)

\* choice returning its match without the failures collected before it
choiceConsume_noSuppressed(p, input, d) ==
    LET r == choice_fn(p.parsers, input, 0, None, d, <<>>)
    IN  IF r.out.result = "match"
        THEN Ret([result |-> "match", unconsumed |-> r.out.unconsumed,
                  content |-> r.out.content], r.log)
        ELSE r

\* choice wrapping its failure in one more failure object
choiceConsume_wrapped(p, input, d) ==
    LET r == choice_fn(p.parsers, input, 0, None, d, <<>>)
    IN  IF r.out.result = "failure"
        THEN Ret([result |-> "failure", message |-> <<"Choice failed">>,
                  causes |-> Some(<<[message |-> r.out.message, causes |-> r.out.causes]>>)],
                 r.log)
        ELSE r

\* choice(...parsers): lines 136-163
choiceConsume(p, input, d) == choice_fn(p.parsers, input, 0, None, d, <<>>)

RECURSIVE repeat_fn(_, _, _, _, _)
\* fn of repeat: lines 168-179
repeat_fn(parser, cur, acc, d, log) ==
    LET r == consume(parser, cur, d - 1)
    IN  CASE d <= 0 -> Ret(Thrown("RangeError"), log)
          [] d > 0 /\ r.out.result = "match" /\ r.out.unconsumed # <<>> ->
                repeat_fn(parser, r.out.unconsumed, acc \o <<r.out.content>>, d - 1, log \o r.log)
          [] d > 0 /\ r.out.result = "match" /\ r.out.unconsumed = <<>> ->
                Ret([result |-> "match", content |-> acc \o <<r.out.content>>,
                     unconsumed |-> r.out.unconsumed], log \o r.log)
          [] d > 0 /\ r.out.result = "failure" ->
                Ret([result |-> "match", content |-> acc, unconsumed |-> cur], log \o r.log)
          [] d > 0 /\ r.out.result = "throw" -> Ret(r.out, log \o r.log)

\* repeat(parser): lines 165-183
repeatConsume(p, input, d) == repeat_fn(p.parser, input, <<>>, d, <<>>)

\* p.consume(str) with d stack frames left
consume(p, input, d) ==
    CASE d <= 0 -> Ret(Thrown("RangeError"), <<>>)
      [] d > 0 /\ p.t = "str" -> Ret(strConsume(p, input), <<>>)
      [] d > 0 /\ p.t = "regexp" -> Ret(regexpConsume(p, input), <<>>)
      [] d > 0 /\ p.t = "then" -> thenConsume(p, input, d - 1)
      [] d > 0 /\ p.t = "onParsed" -> onParsedConsume(p, input, d - 1)
      [] d > 0 /\ p.t = "validate" -> validateConsume(p, input, d - 1)
      [] d > 0 /\ p.t = "not" -> notConsume(p, input, d - 1)
      [] d > 0 /\ p.t = "lazy" -> lazyConsume(p, input, d - 1)
      [] d > 0 /\ p.t = "sequence" -> sequenceConsume(p, input, d - 1)
      [] d > 0 /\ p.t = "choice" -> choiceConsume(p, input, d - 1)
      [] d > 0 /\ p.t = "repeat" -> repeatConsume(p, input, d - 1)

\* parse leaving the suppressed failures out of the failure it builds
parse_noCauses(p, input, d) ==
    LET r == consume(p, input, d - 1)
    IN  CASE r.out.result \in {"throw", "failure"} -> r
          [] r.out.result = "match" /\ r.out.unconsumed = <<>> ->
                Ret([result |-> "match", content |-> r.out.content], r.log)
          [] r.out.result = "match" /\ r.out.unconsumed # <<>> ->
                Ret([result |-> "failure",
                     message |-> <<"Expect EOF. But '", StringOf(r.out.unconsumed), "' was found">>],
                    r.log)

\* p.parse(str): lines 57-73
parse(p, input, d) ==
    LET r == consume(p, input, d - 1)
    IN  CASE r.out.result \in {"throw", "failure"} -> r
          [] r.out.result = "match" /\ r.out.unconsumed = <<>> ->
                Ret([result |-> "match", content |-> r.out.content], r.log)
          [] r.out.result = "match" /\ r.out.unconsumed # <<>> ->
                Ret([result |-> "failure",
                     message |-> <<"Expect EOF. But '", StringOf(r.out.unconsumed), "' was found">>,
                     causes |-> Get(r.out, "suppressedFailures")], r.log)

(***************************************************************************)
(* The grammars and inputs the model evaluates.                            *)
(***************************************************************************)
Strs(alphabet, n) == UNION {[1..k -> alphabet] : k \in 0..n}

sA == str(<<"a">>)
sB == str(<<"b">>)
sAB == str(<<"a", "b">>)
sEmpty == str(<<>>)
\* /a|b/, /(a)b/, /a*/, /(a)|b/
rAorB == regexp(RegExpOf("a|b", Alt(Chr("a"), Chr("b"))))
rGroup == regexp(RegExpOf("(a)b", Cat(Grp(Chr("a")), Chr("b"))))
rStar == regexp(RegExpOf("a*", Star(Chr("a"))))
rOptGroup == regexp(RegExpOf("(a)|b", Alt(Grp(Chr("a")), Chr("b"))))

Leaves == {sA, sB, sAB, sEmpty, rAorB, rGroup, rStar, rOptGroup}

\* the parsers combined pairwise: the leaves, and two that fail with causes
\* or succeed with suppressed failures
Elems == Leaves \cup {choice(<<sA, sB>>), validate(rAorB, "never")}

\* the parsers combined three at a time
Small == {sA, sB, choice(<<sA, sB>>), rGroup}

Unary(p) ==
    {then(p, "wrap"), then(p, "const"), validate(p, "nonEmpty"), validate(p, "always"),
     onParsed(p, "0"), onParsed(onParsed(p, "1"), "0"),
     repeat(p), repeat(onParsed(p, "1")), onParsed(repeat(onParsed(p, "1")), "0"),
     sequence(<<onParsed(p, "1")>>), choice(<<onParsed(p, "1")>>),
     choice(<<choice(<<choice(<<p>>)>>)>>)}

Binary(p, q) ==
    {not(p, q),
     sequence(<<onParsed(p, "1"), onParsed(q, "2")>>),
     choice(<<onParsed(p, "1"), onParsed(q, "2")>>),
     onParsed(sequence(<<onParsed(p, "1"), onParsed(q, "2")>>), "0"),
     onParsed(choice(<<onParsed(p, "1"), onParsed(q, "2")>>), "0")}

Ternary(p, q, r) ==
    {sequence(<<onParsed(p, "1"), onParsed(q, "2"), onParsed(r, "3")>>),
     choice(<<onParsed(p, "1"), onParsed(q, "2"), onParsed(r, "3")>>)}

Grammars ==
    Leaves
    \cup {choice(<<>>), sequence(<<>>)}
    \cup UNION {Unary(p) : p \in Elems}
    \cup UNION {Binary(p, q) : <<p, q>> \in Elems \X Elems}
    \cup UNION {Ternary(p, q, r) : <<p, q, r>> \in Small \X Small \X Small}

RecGrammars == {Prefixed, lazy("Prefixed"), onParsed(lazy("PrefixedObs"), "0")}

Cases ==
    (Grammars \X Strs({"a", "b"}, MaxLen))
    \cup ({Parens} \X Strs({"(", ")"}, MaxRecLen))
    \cup (RecGrammars \X Strs({"-", "a"}, MaxRecLen))

(***************************************************************************)
(* The state machine: a parser value, an input, and one evaluation of      *)
(* consume or parse on it.                                                 *)
(***************************************************************************)
VARIABLES parser, input, pc, op, outcome, observed

vars == <<parser, input, pc, op, outcome, observed>>

Init ==
    /\ \E c \in Cases : parser = c[1] /\ input = c[2]
    /\ pc = "ready"
    /\ op = "none"
    /\ outcome = [result |-> "none"]
    /\ observed = <<>>

\* parser.consume(input)
Consume ==
    /\ pc = "ready"
    /\ LET r == consume(parser, input, StackLimit)
       IN  /\ outcome' = r.out
           /\ observed' = observed \o r.log
    /\ pc' = "done"
    /\ op' = "consume"
    /\ UNCHANGED <<parser, input>>

\* parser.parse(input)
Parse ==
    /\ pc = "ready"
    /\ LET r == parse(parser, input, StackLimit)
       IN  /\ outcome' = r.out
           /\ observed' = observed \o r.log
    /\ pc' = "done"
    /\ op' = "parse"
    /\ UNCHANGED <<parser, input>>

Next == Consume \/ Parse

Spec == Init /\ [][Next]_vars


(* Vocabulary of the properties.                                           *)
(***************************************************************************)
Done == pc = "done"
\* the evaluation returned a value (it did not end in a thrown error)
Returned == Done /\ outcome.result # "throw"

\* p.consume(s), evaluated on its own
Sub(p, s) == consume(p, s, StackLimit)

IsSuffix(u, s) == Len(u) <= Len(s) /\ SubSeq(s, Len(s) - Len(u) + 1, Len(s)) = u

\* the {message, causes} record of a failed result
FailureRecord(res) == [message |-> res.message, causes |-> Get(res, "causes")]

RECURSIVE ConcatLogs(_, _)
\* the callback calls of the first k evaluations of rs, in order
ConcatLogs(rs, k) == IF k = 0 THEN <<>> ELSE ConcatLogs(rs, k - 1) \o rs[k].log

RECURSIVE DepthList(_)
\* levels of the deepest failure tree of a list of failure objects
DepthList(fs) ==
    IF fs = <<>> THEN 0
    ELSE LET h == 1 + DepthList(OptList(Head(fs).causes))
             t == DepthList(Tail(fs))
         IN  IF h > t THEN h ELSE t

\* levels of the causes / suppressedFailures tree attached to a result
Depth(res) ==
    CASE res.result = "failure" -> 1 + DepthList(OptList(Get(res, "causes")))
      [] res.result = "match" -> DepthList(OptList(Get(res, "suppressedFailures")))
      [] OTHER -> 0

\* the names of the factories given to lazy
FactoryNames == {"Parens", "Prefixed", "PrefixedObs"}

RECURSIVE Elements(_, _), ElementsOfList(_, _)
\* number of alternatives and sequence elements written in a grammar, the
\* body of each lazy factory counted once (seen: the factories counted)
Elements(p, seen) ==
    CASE p.t \in {"str", "regexp"} -> 0
      [] p.t = "lazy" ->
            IF p.factory \in seen THEN 0
            ELSE Elements(Factory(p.factory), seen \cup {p.factory})
      [] p.t \in {"then", "validate", "onParsed"} -> Elements(p.arg, seen)
      [] p.t = "not" -> Elements(p.arg, seen) + Elements(p.parser, seen)
      [] p.t = "repeat" -> Elements(p.parser, seen)
      [] p.t \in {"sequence", "choice"} -> Len(p.parsers) + ElementsOfList(p.parsers, seen)

ElementsOfList(ps, seen) ==
    IF ps = <<>> THEN 0 ELSE Elements(Head(ps), seen) + ElementsOfList(Tail(ps), seen)

\* the constant the static grammar determines: one level per alternative or
\* sequence element, one for the leaf
StaticBound(p) == 1 + Elements(p, {n \in FactoryNames : Factory(n) = p})

RECURSIVE LazyFree(_), LazyFreeList(_)
LazyFree(p) ==
    CASE p.t \in {"str", "regexp"} -> TRUE
      [] p.t = "lazy" -> FALSE
      [] p.t \in {"then", "validate", "onParsed"} -> LazyFree(p.arg)
      [] p.t = "not" -> LazyFree(p.arg) /\ LazyFree(p.parser)
      [] p.t = "repeat" -> LazyFree(p.parser)
      [] p.t \in {"sequence", "choice"} -> LazyFreeList(p.parsers)

LazyFreeList(ps) == IF ps = <<>> THEN TRUE ELSE LazyFree(Head(ps)) /\ LazyFreeList(Tail(ps))

RECURSIVE Flatten(_)
\* every failure object reachable from a list of failure objects
Flatten(fs) ==
    IF fs = <<>> THEN <<>>
    ELSE <<Head(fs)>> \o Flatten(OptList(Head(fs).causes)) \o Flatten(Tail(fs))

\* every failure object reachable from a returned value
Reachable(res) ==
    Flatten(OptList(Get(res, "causes")) \o OptList(Get(res, "suppressedFailures")))

RECURSIVE BalancedFrom(_, _)
\* s is balanced when read with n parentheses already open
BalancedFrom(s, n) ==
    IF s = <<>> THEN n = 0
    ELSE IF Head(s) = "(" THEN BalancedFrom(Tail(s), n + 1)
    ELSE IF Head(s) = ")" THEN n > 0 /\ BalancedFrom(Tail(s), n - 1)
    ELSE FALSE

Balanced(s) == BalancedFrom(s, 0)

RECURSIVE Enclosures(_), EnclosuresOfList(_), ObserverIds(_), ObserverIdsOfList(_)
\* the callbacks registered in a lazy-free grammar
ObserverIds(p) ==
    CASE p.t \in {"str", "regexp", "lazy"} -> {}
      [] p.t = "onParsed" -> {p.cb} \cup ObserverIds(p.arg)
      [] p.t \in {"then", "validate"} -> ObserverIds(p.arg)
      [] p.t = "not" -> ObserverIds(p.arg) \cup ObserverIds(p.parser)
      [] p.t = "repeat" -> ObserverIds(p.parser)
      [] p.t \in {"sequence", "choice"} -> ObserverIdsOfList(p.parsers)

ObserverIdsOfList(ps) ==
    IF ps = <<>> THEN {} ELSE ObserverIds(Head(ps)) \cup ObserverIdsOfList(Tail(ps))

\* the pairs <<outer, inner>> of callbacks, inner registered on a parser that
\* outer's parser encloses
Enclosures(p) ==
    CASE p.t \in {"str", "regexp", "lazy"} -> {}
      [] p.t = "onParsed" -> ({p.cb} \X ObserverIds(p.arg)) \cup Enclosures(p.arg)
      [] p.t \in {"then", "validate"} -> Enclosures(p.arg)
      [] p.t = "not" -> Enclosures(p.arg) \cup Enclosures(p.parser)
      [] p.t = "repeat" -> Enclosures(p.parser)
      [] p.t \in {"sequence", "choice"} -> EnclosuresOfList(p.parsers)

EnclosuresOfList(ps) ==
    IF ps = <<>> THEN {} ELSE Enclosures(Head(ps)) \cup EnclosuresOfList(Tail(ps))

RECURSIVE RepeatAsStated(_, _, _, _)
\* repeat as the specification words it: test the cursor, then apply p
RepeatAsStated(p, cur, acc, fuel) ==
    IF cur = <<>> \/ fuel = 0 THEN [result |-> "match", content |-> acc, unconsumed |-> cur]
    ELSE LET res == Sub(p, cur).out
         IN  IF res.result = "match"
             THEN RepeatAsStated(p, res.unconsumed, acc \o <<res.content>>, fuel - 1)
             ELSE [result |-> "match", content |-> acc, unconsumed |-> cur]

\* the evaluations of the elements of a choice, each on the original input
ChoiceTrials(ps, s) == [i \in 1..Len(ps) |-> Sub(ps[i], s)]

\* the first alternative that matches, 0 when none does
FirstMatch(rs) ==
    IF \E i \in 1..Len(rs) : rs[i].out.result = "match"
    THEN CHOOSE i \in 1..Len(rs) :
            /\ rs[i].out.result = "match"
            /\ \A j \in 1..(i - 1) : rs[j].out.result # "match"
    ELSE 0

RECURSIVE SequenceTrials(_, _, _)
\* the evaluations of the elements of a sequence, each on the remainder of
\* the one before it, up to and including the first that does not match
SequenceTrials(ps, cur, i) ==
    IF i > Len(ps) THEN <<>>
    ELSE LET r == Sub(ps[i], cur)
         IN  IF r.out.result = "match"
             THEN <<r>> \o SequenceTrials(ps, r.out.unconsumed, i + 1)
             ELSE <<r>>

(***************************************************************************)
(* The claims.                                                             *)
(***************************************************************************)

\* C1: whenever consume(input) returns a success, its unconsumed is a suffix
\* of input (input ends with it and it is no longer than input), for every
\* parser, regexp parsers with capture groups included.
SuffixInvariant ==
    (Done /\ op = "consume" /\ outcome.result = "match")
        => IsSuffix(outcome.unconsumed, input)

\* C2: parse returns a Match with content c exactly when consume succeeds
\* with content c and an empty unconsumed; on a non-empty unconsumed r it
\* returns the failure "Expect EOF. But 'r' was found" whose causes are the
\* suppressedFailures of the consume result; a consume failure is returned
\* as it is.
ParseFollowsConsume ==
    (Returned /\ op = "parse") =>
        LET c == Sub(parser, input).out
        IN  CASE c.result = "match" /\ c.unconsumed = <<>> ->
                    outcome = [result |-> "match", content |-> c.content]
              [] c.result = "match" /\ c.unconsumed # <<>> ->
                    /\ outcome.result = "failure"
                    /\ outcome.message
                         = <<"Expect EOF. But '", StringOf(c.unconsumed), "' was found">>
                    /\ Get(outcome, "causes") = Get(c, "suppressedFailures")
              [] c.result = "failure" -> outcome = c
              [] OTHER -> FALSE

ParseFollowsConsumeWitness ==
    /\ Done /\ op = "parse"
    /\ outcome.result = "failure"
    /\ outcome.message[1] = "Expect EOF. But '"
    /\ Get(outcome, "causes") # None

\* C3: choice applies the alternatives to the same input in listed order;
\* the first that succeeds gives the content and unconsumed, with the
\* {message, causes} records of the earlier failures, in trial order, as
\* suppressedFailures, and no later alternative is tried; when none succeeds
\* the result is the failure "No Matches" with the records of all failures
\* as causes.
ChoiceFirstMatchWins ==
    (Returned /\ op = "consume" /\ parser.t = "choice") =>
        LET ps == parser.parsers
            rs == ChoiceTrials(ps, input)
            k == FirstMatch(rs)
        IN  IF k # 0
            THEN /\ outcome.result = "match"
                 /\ outcome.content = rs[k].out.content
                 /\ outcome.unconsumed = rs[k].out.unconsumed
                 /\ OptList(Get(outcome, "suppressedFailures"))
                      = [i \in 1..(k - 1) |-> FailureRecord(rs[i].out)]
                 /\ observed = ConcatLogs(rs, k)
            ELSE /\ outcome.result = "failure"
                 /\ outcome.message = <<"No Matches">>
                 /\ OptList(Get(outcome, "causes"))
                      = [i \in 1..Len(ps) |-> FailureRecord(rs[i].out)]
                 /\ observed = ConcatLogs(rs, Len(ps))

ChoiceFirstMatchWinsWitness ==
    /\ Done /\ op = "consume" /\ parser.t = "choice"
    /\ Len(parser.parsers) = 3
    /\ outcome.result = "match"
    /\ Len(OptList(Get(outcome, "suppressedFailures"))) = 1
    /\ Len(observed) = 2

\* C4 as stated: when choice(...).parse(s) returns a Match produced by an
\* alternative after the first, the failures of the earlier alternatives can
\* be reached from the value parse returns.
ParseMatchKeepsSuppressed ==
    (Done /\ op = "parse" /\ parser.t = "choice" /\ outcome.result = "match") =>
        LET rs == ChoiceTrials(parser.parsers, input)
            reach == Reachable(outcome)
        IN  \A i \in 1..(FirstMatch(rs) - 1) :
                \E j \in 1..Len(reach) : reach[j] = FailureRecord(rs[i].out)

\* C4 amended: the failures of the earlier alternatives are recorded, in
\* trial order, in the suppressedFailures of the success consume returns;
\* the Match parse returns holds the result tag and the content only.
ParseMatchDropsSuppressed ==
    (Done /\ op = "parse" /\ parser.t = "choice" /\ outcome.result = "match") =>
        LET rs == ChoiceTrials(parser.parsers, input)
            c == Sub(parser, input).out
        IN  /\ c.result = "match"
            /\ OptList(Get(c, "suppressedFailures"))
                 = [i \in 1..(FirstMatch(rs) - 1) |-> FailureRecord(rs[i].out)]
            /\ DOMAIN outcome = {"result", "content"}
            /\ outcome.content = c.content

ParseMatchDropsSuppressedWitness ==
    /\ Done /\ op = "parse" /\ parser.t = "choice" /\ outcome.result = "match"
    /\ FirstMatch(ChoiceTrials(parser.parsers, input)) > 1

\* C5: repeat(p).consume(s) terminates and returns a success for every p
\* whose consume terminates, a p that succeeds without consuming included.
RepeatNeverFails ==
    (Done /\ op = "consume" /\ parser.t = "repeat" /\ parser.parser.t \in {"str", "regexp"})
        => outcome.result = "match"

\* C6: repeat(p).consume(s) stops when p fails against the cursor or when
\* the cursor is the empty string; content is the list of the matches made
\* before stopping and unconsumed the cursor at that point, for every p and
\* every s, the empty string included.
RepeatStopsAtEmptyCursor ==
    (Returned /\ op = "consume" /\ parser.t = "repeat") =>
        LET stated == RepeatAsStated(parser.parser, input, <<>>, StackLimit)
        IN  /\ outcome.result = "match"
            /\ outcome.unconsumed = stated.unconsumed
            /\ Len(outcome.content) = Len(stated.content)
            /\ outcome.content = stated.content

\* C7: sequence(p1..pn), n >= 1, applies p1 to the input and each next
\* element to the remainder of the one before; the first failure is returned
\* as it is and no later element is invoked; when all succeed the content is
\* the list of the n contents and unconsumed is the last element's.
SequenceOrderedFailFast ==
    (Returned /\ op = "consume" /\ parser.t = "sequence" /\ Len(parser.parsers) >= 1) =>
        LET ps == parser.parsers
            rs == SequenceTrials(ps, input, 1)
            last == rs[Len(rs)].out
        IN  /\ observed = ConcatLogs(rs, Len(rs))
            /\ IF last.result = "match"
               THEN /\ Len(rs) = Len(ps)
                    /\ outcome.result = "match"
                    /\ outcome.content = [i \in 1..Len(ps) |-> rs[i].out.content]
                    /\ outcome.unconsumed = last.unconsumed
               ELSE outcome = last

SequenceOrderedFailFastWitness ==
    /\ Done /\ op = "consume" /\ parser.t = "sequence"
    /\ Len(parser.parsers) = 3
    /\ outcome.result = "failure"
    /\ Get(outcome, "causes") # None
    /\ Len(SequenceTrials(parser.parsers, input, 1)) = 2
    /\ Len(observed) = 2

\* C8: the balanced-parentheses grammar built with lazy recognises exactly
\* the balanced strings over the two parentheses, and every such evaluation
\* terminates.
ParensRecognisesBalanced ==
    (Done /\ op = "parse" /\ parser = Parens) =>
        /\ outcome.result \in {"match", "failure"}
        /\ (outcome.result = "match") <=> Balanced(input)

ParensRecognisesBalancedWitness ==
    /\ Done /\ op = "parse" /\ parser = Parens
    /\ input = <<"(", "(", ")", ")">>
    /\ outcome.result = "match"

\* C9: a consume call on p.onParsed(cb) that returns has called cb exactly
\* once, with the input of that call and p's result, after every callback
\* call made inside p and before returning that same result; so the callback
\* of an inner parser fires before the callback of a parser enclosing it.
ObserverFiresInnermostFirst ==
    Returned =>
        /\ parser.t = "onParsed" =>
              LET r == Sub(parser.arg, input)
              IN  /\ observed = r.log \o <<[cb |-> parser.cb, str |-> input, parsed |-> r.out]>>
                  /\ op = "consume" => outcome = r.out
        /\ LazyFree(parser) =>
              \A pair \in Enclosures(parser) :
                 \A i \in 1..Len(observed) :
                    observed[i].cb = pair[2] =>
                       \E j \in (i + 1)..Len(observed) : observed[j].cb = pair[1]
        /\ parser = onParsed(lazy("PrefixedObs"), "0") =>
              \A i \in 1..(Len(observed) - 1) :
                 Len(observed[i].str) < Len(observed[i + 1].str)

ObserverFiresInnermostFirstWitness ==
    /\ Done /\ op = "consume"
    /\ parser.t = "onParsed" /\ parser.arg.t = "sequence"
    /\ Len(observed) = 3
    /\ observed[3].cb = "0"

\* C10 as stated: the depth of the causes / suppressedFailures tree of any
\* result is bounded by a constant the static grammar determines, whatever
\* the input, recursive grammars built with lazy included.
CausesDepthStaticallyBounded == Done => Depth(outcome) <= StaticBound(parser)

\* C10 amended: for a grammar without lazy the depth is bounded by the
\* constant the static grammar determines; for the recursive grammars it is
\* bounded by the length of the input, each level of recursion that the
\* input drives adding a level.
CausesDepthBounded ==
    Done =>
        IF LazyFree(parser)
        THEN Depth(outcome) <= StaticBound(parser)
        ELSE Depth(outcome) <= Len(input) + 2

CausesDepthBoundedWitness ==
    /\ Done /\ parser = lazy("Prefixed")
    /\ Len(input) = 3
    /\ outcome.result = "failure"
    /\ Depth(outcome) = Len(input) + 2
    /\ Depth(outcome) = StaticBound(parser)

=============================================================================
